---- MODULE Spec2Model ----
(***************************************************************************)
(* Model of the Numbot verification bot (src/main.py).                     *)
(*                                                                         *)
(* One command invocation of `verify` is a session.  Sessions are          *)
(* coroutines on one asyncio event loop: a session runs alone from one     *)
(* `await` to the next (the requests calls are blocking), and `running`    *)
(* names the session that holds the loop.  Time is kept by timers:         *)
(* elapsed[s] is datetime.now() minus the start of the session's current   *)
(* polling window, sleepLeft[s] is what remains of its asyncio.sleep.      *)
(* Time passes inside a blocking HTTP request and while every session      *)
(* sleeps.  HTTP responses are drawn from the shapes of the provider's     *)
(* contract; a text is a sequence of one-character strings.                *)
(***************************************************************************)
EXTENDS Integers, Sequences, FiniteSets, TLC

VARIABLES
    CACHE,              \* the module-level token cache dict
    running,            \* session holding the event loop, or NoSession
    live,               \* sessions whose command can be invoked
    pc,                 \* per session: code position
    stack,              \* per session: return positions of the calls in progress
    ret,                \* per session: value returned by the last call
    attempt,            \* per session: requests made by the current retry loop
    bearer_token,       \* per session: local of verify / check_otp
    balance_before,     \* per session: local of verify
    balance_after,      \* per session: local of verify, `balance` of check_otp
    verification_href,  \* per session: local of verify
    verification_id,    \* per session: local of verify
    number,             \* per session: local of verify
    ends_at,            \* per session: local of verify
    elapsed,            \* per session: time since the window's start
    sleepLeft,          \* per session: remaining time of the pending sleep
    events,             \* per session: what was sent to the chat (ctx.send / message.edit)
    reqlog,             \* per session: outcomes of the requests of the call just made
    obs,                \* per session: what the polls of the session returned (history)
    tokcalls,           \* the last two generate_bearer_token calls (history)
    sms                 \* the message text under extraction (OTP specification)

vars == <<CACHE, running, live, pc, stack, ret, attempt, bearer_token,
          balance_before, balance_after, verification_href, verification_id,
          number, ends_at, elapsed, sleepLeft, events, reqlog, obs, tokcalls, sms>>

sessionVars == <<CACHE, running, live, pc, stack, ret, attempt, bearer_token,
          balance_before, balance_after, verification_href, verification_id,
          number, ends_at, elapsed, sleepLeft, events, reqlog, obs, tokcalls>>

----------------------------------------------------------------------------
(* Values *)

Sessions == {"s1", "s2"}
NoSession == "nobody"

None == "None"                  \* Python's None, and the value of an absent field
Unbound == "<unbound>"          \* a local that was never assigned
ErrorSentinel == "Error"        \* get_balance's failure value

Falsy(v) == v \in {None, ""}

Tokens == {"T1"}
Balances == {"9.50"}
EndsAtValues == {"2024-01-01T00:00:10Z"}

HrefOf(s) == IF s = "s1" THEN "H1" ELSE "H2"
IdOf(s) == IF s = "s1" THEN "R1" ELSE "R2"
NumbersOf(h) == IF h = "H1" THEN {"+15551234567"} ELSE {"+15557654321"}

\* timeout=15 of every requests call
RequestTimeout == 15
\* a blocking request returns at once or only when its timeout strikes
Durations == {0, RequestTimeout}

\* range(3) of the two retry loops
MaxAttempts == 3
\* asyncio.sleep(3) of the two retry loops
RetryDelay == 3
\* max_wait_time of verify
max_wait_time == 30
\* asyncio.sleep(1) of the number loop
NumberPollInterval == 1
\* timedelta(minutes=5) of check_otp, in seconds
OtpWindow == 300
\* asyncio.sleep(5) of the OTP loop
OtpPollInterval == 5

----------------------------------------------------------------------------
(* Texts and the OTP regular expression  re.findall(r"\b\d{4,8}\b", text) *)

Digits == {"0", "1", "2", "3", "4", "5", "6", "7", "8", "9"}
Letters == {"a", "c", "d", "e", "h", "i", "o", "x", "N", "O", "T", "P", "f", "u", "n"}
IsDigit(c) == c \in Digits
\* \w : letters, digits and the underscore
IsWord(c) == c \in Digits \cup Letters \cup {"_"}

\* lower and upper repetition count of \d{4,8}
OtpMinDigits == 4
OtpMaxDigits == 8

NoOtpFound == <<"N", "o", " ", "O", "T", "P", " ", "f", "o", "u", "n", "d">>

\* is the character at index i (1-based) a word character; outside the text: no
WordAt(t, i) == i >= 1 /\ i <= Len(t) /\ IsWord(t[i])

\* \b at the gap before index i
WordBoundary(t, i) == WordAt(t, i - 1) # WordAt(t, i)

\* do k digits start at index i
DigitsAt(t, i, k) == i + k - 1 <= Len(t) /\ \A j \in i..(i + k - 1) : IsDigit(t[j])

\* the pattern without its closing \b
MatchKNoTrailingBoundary(t, i, k) == WordBoundary(t, i) /\ DigitsAt(t, i, k)

\* the pattern tried at index i with exactly k digits
MatchK(t, i, k) == WordBoundary(t, i) /\ DigitsAt(t, i, k) /\ WordBoundary(t, i + k)

\* the greedy quantifier: the longest k in 4..8 that lets the pattern match; 0 if none
MatchLen(t, i) ==
    LET ks == {k \in OtpMinDigits..OtpMaxDigits : MatchK(t, i, k)}
    IN  IF ks = {} THEN 0 ELSE CHOOSE k \in ks : \A k2 \in ks : k2 <= k

RECURSIVE FindAllFrom(_, _)
\* findall: leftmost non-overlapping matches, scanning from index i
FindAllFrom(t, i) ==
    IF i > Len(t) THEN <<>>
    ELSE LET k == MatchLen(t, i)
         IN  IF k = 0 THEN FindAllFrom(t, i + 1)
             ELSE <<SubSeq(t, i, i + k - 1)>> \o FindAllFrom(t, i + k)

FindAll(t) == FindAllFrom(t, 1)

\* otp = otp_match[-1] if otp_match else "No OTP found"
ExtractOtp(t) ==
    LET otp_match == FindAll(t)
    IN  IF otp_match # <<>> THEN otp_match[Len(otp_match)] ELSE NoOtpFound

\* data["messages"][0]["message"]
FirstSms(messages) == messages[1]

\* data["messages"][-1]["message"]
LatestSms(messages) == messages[Len(messages)]

----------------------------------------------------------------------------
(* What the provider may answer.  status "fail" is a transport failure or    *)
(* timeout, "rejected" a 401/403 answer (raise_for_status raises for both,   *)
(* and both are requests.exceptions.RequestException), "ok" a 2xx answer.    *)

Failures == {"fail", "rejected"}

\* POST /auth : {token: string}
AuthResponses ==
    [status : Failures, token : {None}] \cup [status : {"ok"}, token : Tokens \cup {None}]

\* GET /account/me : {currentBalance: number}
BalanceResponses ==
    [status : Failures, currentBalance : {None}]
        \cup [status : {"ok"}, currentBalance : Balances \cup {None}]

\* POST /verifications : {href: URL, id: string}; text = FALSE is an empty body
CreateResponses(s) ==
    [status : Failures, text : {FALSE}, href : {None}, id : {None}]
        \cup [status : {"ok"}, text : {FALSE}, href : {None}, id : {None}]
        \cup [status : {"ok"}, text : {TRUE}, href : {None, HrefOf(s)}, id : {None, IdOf(s)}]

\* GET <href> : {number?: string, endsAt?: ISO8601 string}
StatusResponses(h) ==
    [status : Failures, number : {None}, endsAt : {None}]
        \cup [status : {"ok"}, number : NumbersOf(h) \cup {None}, endsAt : EndsAtValues \cup {None}]

\* "code 9021", "hi", "1234 5678"
SampleTexts ==
    { <<"c", "o", "d", "e", " ", "9", "0", "2", "1">>,
      <<"h", "i">>,
      <<"1", "2", "3", "4", " ", "5", "6", "7", "8">> }

MessageLists ==
    {<<>>} \cup {<<t>> : t \in SampleTexts} \cup {<<t, u>> : t, u \in SampleTexts}

\* GET /sms?ReservationId=<id> : {messages: [{message: string}, ...]}
MessageResponses ==
    [status : Failures, messages : {<<>>}] \cup [status : {"ok"}, messages : MessageLists]

----------------------------------------------------------------------------
(* Events sent to the chat *)

NoText == <<>>

FailedEvent(detail) ==
    [type |-> "Failed", detail |-> detail, number |-> None,
     balanceBefore |-> None, balanceAfter |-> None, otp |-> NoText]

\* the embed with the two balance fields exchanged
PendingEventSwapped(n, before, after) ==
    [type |-> "Pending", detail |-> None, number |-> n,
     balanceBefore |-> after, balanceAfter |-> before, otp |-> NoText]

PendingEvent(n, before, after) ==
    [type |-> "Pending", detail |-> None, number |-> n,
     balanceBefore |-> before, balanceAfter |-> after, otp |-> NoText]

CompletedEvent(n, balance, otp) ==
    [type |-> "Completed", detail |-> None, number |-> n,
     balanceBefore |-> None, balanceAfter |-> balance, otp |-> otp]

Emitted(s, type) == \E i \in 1..Len(events[s]) : events[s][i].type = type

----------------------------------------------------------------------------
(* Scheduling and time *)

\* code positions inside a polling window, where the window's clock runs
TimedLabels == {"num_loop", "num_get", "num_sleep", "otp_loop", "otp_get",
                "otp_sleep_exc", "otp_sleep"}

\* s may take its next step: it holds the loop, or the loop is free and s is not asleep
Ready(s) == running = s \/ (running = NoSession /\ sleepLeft[s] = 0)

Max0(n) == IF n < 0 THEN 0 ELSE n

\* d units of time pass
Advance(d) ==
    /\ elapsed' = [t \in Sessions |->
                     IF pc[t] \in TimedLabels THEN elapsed[t] + d ELSE elapsed[t]]
    /\ sleepLeft' = [t \in Sessions |-> Max0(sleepLeft[t] - d)]

\* a call: continue at entry, come back to back
Call(s, entry, back) ==
    /\ pc' = [pc EXCEPT ![s] = entry]
    /\ stack' = [stack EXCEPT ![s] = <<back>> \o stack[s]]

\* return v to the caller
Return(s, v) ==
    /\ pc' = [pc EXCEPT ![s] = Head(stack[s])]
    /\ stack' = [stack EXCEPT ![s] = Tail(stack[s])]
    /\ ret' = [ret EXCEPT ![s] = v]

Send(s, e) == events' = [events EXCEPT ![s] = Append(events[s], e)]

NoObs == [lastResp |-> "none", lastStatus |-> "none", sawBoth |-> FALSE,
          msgPolled |-> FALSE, nonEmpty |-> 0, latePolls |-> 0, inbox |-> <<>>,
          numberSets |-> 0, creates |-> 0, foreign |-> FALSE, cooldown |-> 0,
          gap |-> 0]

NoCall == [reqs |-> 0, oks |-> 0, hit |-> FALSE]

Init ==
    /\ CACHE = [k \in {} |-> None]
    /\ running = NoSession
    /\ live = {"s1"}
    /\ pc = [s \in Sessions |-> "idle"]
    /\ stack = [s \in Sessions |-> <<>>]
    /\ ret = [s \in Sessions |-> None]
    /\ attempt = [s \in Sessions |-> 0]
    /\ bearer_token = [s \in Sessions |-> Unbound]
    /\ balance_before = [s \in Sessions |-> Unbound]
    /\ balance_after = [s \in Sessions |-> Unbound]
    /\ verification_href = [s \in Sessions |-> Unbound]
    /\ verification_id = [s \in Sessions |-> Unbound]
    /\ number = [s \in Sessions |-> Unbound]
    /\ ends_at = [s \in Sessions |-> Unbound]
    /\ elapsed = [s \in Sessions |-> 0]
    /\ sleepLeft = [s \in Sessions |-> 0]
    /\ events = [s \in Sessions |-> <<>>]
    /\ reqlog = [s \in Sessions |-> <<>>]
    /\ obs = [s \in Sessions |-> NoObs]
    /\ tokcalls = [n |-> 0, prev |-> NoCall, cur |-> NoCall, won |-> FALSE, late |-> 0]
    /\ sms = [text |-> <<>>, scanned |-> FALSE, otp |-> NoText, room |-> 0]

----------------------------------------------------------------------------
(* generate_bearer_token *)

locals == <<bearer_token, balance_before, balance_after, verification_href,
            verification_id, number, ends_at>>
timers == <<elapsed, sleepLeft>>

\* asyncio.sleep(n) called without await, in a plain function: the coroutine
\* object is made and dropped, and no time passes
UnawaitedSleep(n) == 0

\* the outcome of a request as the retry log keeps it
Kind(status, field) ==
    IF status # "ok" THEN status ELSE IF field = None THEN "nofield" ELSE "ok"

\* a lookup that never finds the entry
CachedNever == FALSE

\* "token" in CACHE
Cached == "token" \in DOMAIN CACHE

\* if "token" in CACHE: return CACHE["token"]; otherwise enter the retry loop
GbtCheck(s) ==
    /\ Ready(s) /\ pc[s] = "gbt_entry"
    /\ running' = s
    /\ reqlog' = [reqlog EXCEPT ![s] = <<>>]
    /\ obs' = [obs EXCEPT ![s].lastResp = "none"]
    /\ tokcalls' = [n |-> IF tokcalls.n < 2 THEN tokcalls.n + 1 ELSE 2,
                    prev |-> tokcalls.cur,
                    cur |-> [reqs |-> 0, oks |-> 0, hit |-> "token" \in DOMAIN CACHE],
                    won |-> tokcalls.won, late |-> tokcalls.late]
    /\ IF Cached
       THEN /\ Return(s, CACHE["token"])
            /\ UNCHANGED attempt
       ELSE /\ pc' = [pc EXCEPT ![s] = "gbt_post"]
            /\ attempt' = [attempt EXCEPT ![s] = 0]
            /\ UNCHANGED <<stack, ret>>
    /\ UNCHANGED <<CACHE, live, locals, timers, events, sms>>

\* one iteration of the loop over range(limit): the POST to /auth and what follows it
GbtPostWith(s, limit) ==
    /\ Ready(s) /\ pc[s] = "gbt_post"
    /\ \E r \in AuthResponses, d \in Durations :
        /\ Advance(d + (IF r.status = "ok" THEN 0 ELSE UnawaitedSleep(RetryDelay)))
        /\ reqlog' = [reqlog EXCEPT ![s] = Append(reqlog[s], Kind(r.status, r.token))]
        /\ tokcalls' = [tokcalls EXCEPT !.cur.reqs = tokcalls.cur.reqs + 1,
                                        !.cur.oks = tokcalls.cur.oks
                                                      + (IF r.status = "ok" THEN 1 ELSE 0),
                                        !.won = tokcalls.won \/ r.status = "ok",
                                        !.late = tokcalls.late
                                                   + (IF tokcalls.won THEN 1 ELSE 0)]
        /\ IF r.status = "ok"
           THEN /\ CACHE' = [k \in {"token"} |-> r.token]
                /\ Return(s, r.token)
                /\ UNCHANGED <<attempt, obs>>
           ELSE \* logging.warning; asyncio.sleep(3)
                /\ obs' = [obs EXCEPT ![s].gap = UnawaitedSleep(RetryDelay)]
                /\ attempt' = [attempt EXCEPT ![s] = attempt[s] + 1]
                /\ IF attempt[s] + 1 < limit
                   THEN UNCHANGED <<pc, stack, ret>>
                   ELSE Return(s, None)
                /\ UNCHANGED CACHE
    /\ UNCHANGED <<running, live, locals, events, sms>>

\* a loop that runs once more than range(3)
GbtPostOneMore(s) == GbtPostWith(s, MaxAttempts + 1)

GbtPost(s) == GbtPostWith(s, MaxAttempts)

----------------------------------------------------------------------------
(* get_balance *)

\* bearer_token = generate_bearer_token()
GbEntry(s) ==
    /\ Ready(s) /\ pc[s] = "gb_entry"
    /\ Call(s, "gbt_entry", "gb_tokchk")
    /\ UNCHANGED <<CACHE, running, live, ret, attempt, locals, timers, events,
                   reqlog, obs, tokcalls, sms>>

\* if not bearer_token: return "Error"; otherwise enter the retry loop
GbTokChk(s) ==
    /\ Ready(s) /\ pc[s] = "gb_tokchk"
    /\ reqlog' = [reqlog EXCEPT ![s] = <<>>]
    /\ IF Falsy(ret[s])
       THEN /\ Return(s, ErrorSentinel)
            /\ UNCHANGED attempt
       ELSE /\ pc' = [pc EXCEPT ![s] = "gb_get"]
            /\ attempt' = [attempt EXCEPT ![s] = 0]
            /\ UNCHANGED <<stack, ret>>
    /\ UNCHANGED <<CACHE, running, live, locals, timers, events, obs, tokcalls, sms>>

\* one iteration of the loop over range(limit): the GET of /account/me and what follows it
GbGetWith(s, limit) ==
    /\ Ready(s) /\ pc[s] = "gb_get"
    /\ \E r \in BalanceResponses, d \in Durations :
        /\ Advance(d + (IF r.status = "ok" THEN 0 ELSE UnawaitedSleep(RetryDelay)))
        /\ reqlog' = [reqlog EXCEPT ![s] = Append(reqlog[s], Kind(r.status, r.currentBalance))]
        /\ obs' = [obs EXCEPT ![s].lastResp = r.status,
                              ![s].gap = IF r.status = "ok" THEN obs[s].gap
                                         ELSE UnawaitedSleep(RetryDelay)]
        /\ IF r.status = "ok"
           THEN /\ Return(s, IF r.currentBalance = None THEN ErrorSentinel
                                                       ELSE r.currentBalance)
                /\ UNCHANGED attempt
           ELSE /\ attempt' = [attempt EXCEPT ![s] = attempt[s] + 1]
                /\ IF attempt[s] + 1 < limit
                   THEN UNCHANGED <<pc, stack, ret>>
                   ELSE Return(s, ErrorSentinel)
    /\ UNCHANGED <<CACHE, running, live, locals, events, tokcalls, sms>>

GbGet(s) == GbGetWith(s, MaxAttempts)

----------------------------------------------------------------------------
(* verify *)

\* the command is invoked: bearer_token = generate_bearer_token()
Invoke(s) ==
    /\ s \in live /\ running = NoSession /\ pc[s] = "idle"
    /\ running' = s
    /\ Call(s, "gbt_entry", "v_authchk")
    /\ UNCHANGED <<CACHE, live, ret, attempt, locals, timers, events, reqlog, obs,
                   tokcalls, sms>>

\* the failure branch without its return: the report is sent and verify goes on
VerifyAuthChkNoReturn(s) ==
    /\ Ready(s) /\ pc[s] = "v_authchk"
    /\ bearer_token' = [bearer_token EXCEPT ![s] = ret[s]]
    /\ reqlog' = [reqlog EXCEPT ![s] = <<>>]
    /\ IF Falsy(ret[s])
       THEN /\ Send(s, FailedEvent("Failed to authenticate with the API."))
            /\ running' = NoSession
       ELSE UNCHANGED <<events, running>>
    /\ Call(s, "gb_entry", "v_create")
    /\ UNCHANGED <<CACHE, live, ret, attempt, balance_before, balance_after,
                   verification_href, verification_id, number, ends_at, timers,
                   obs, tokcalls, sms>>

\* if not bearer_token: report and return; otherwise balance_before = get_balance()
VerifyAuthChk(s) ==
    /\ Ready(s) /\ pc[s] = "v_authchk"
    /\ bearer_token' = [bearer_token EXCEPT ![s] = ret[s]]
    /\ reqlog' = [reqlog EXCEPT ![s] = <<>>]
    /\ IF Falsy(ret[s])
       THEN /\ Send(s, FailedEvent("Failed to authenticate with the API."))
            /\ pc' = [pc EXCEPT ![s] = "done"]
            /\ running' = NoSession
            /\ UNCHANGED stack
       ELSE /\ Call(s, "gb_entry", "v_create")
            /\ UNCHANGED <<events, running>>
    /\ UNCHANGED <<CACHE, live, ret, attempt, balance_before, balance_after,
                   verification_href, verification_id, number, ends_at, timers,
                   obs, tokcalls, sms>>

\* the POST to /verifications, the checks of its answer, balance_after = get_balance()
VerifyCreate(s) ==
    /\ Ready(s) /\ pc[s] = "v_create"
    /\ balance_before' = [balance_before EXCEPT ![s] = ret[s]]
    /\ reqlog' = [reqlog EXCEPT ![s] = <<>>]
    /\ \E r \in CreateResponses(s), d \in Durations :
        /\ Advance(d)
        /\ obs' = [obs EXCEPT ![s].lastResp = r.status,
                              ![s].creates = obs[s].creates + 1]
        /\ IF r.status # "ok"
           THEN /\ Send(s, FailedEvent("Verification request failed: exception"))
                /\ pc' = [pc EXCEPT ![s] = "done"]
                /\ running' = NoSession
                /\ UNCHANGED <<stack, verification_href, verification_id>>
           ELSE IF ~r.text \/ r.href = None
           THEN /\ Send(s, FailedEvent("Verification request failed. Response"))
                /\ pc' = [pc EXCEPT ![s] = "done"]
                /\ running' = NoSession
                /\ UNCHANGED <<stack, verification_href, verification_id>>
           ELSE /\ verification_href' = [verification_href EXCEPT ![s] = r.href]
                /\ verification_id' = [verification_id EXCEPT ![s] = r.id]
                /\ Call(s, "gb_entry", "num_init")
                /\ UNCHANGED <<events, running>>
    /\ UNCHANGED <<CACHE, live, ret, attempt, bearer_token, balance_after, number,
                   ends_at, tokcalls, sms>>

\* a verify that gives up when the balance after creation cannot be read
VerifyNumInitAbortOnError(s) ==
    /\ Ready(s) /\ pc[s] = "num_init"
    /\ balance_after' = [balance_after EXCEPT ![s] = ret[s]]
    /\ reqlog' = [reqlog EXCEPT ![s] = <<>>]
    /\ number' = [number EXCEPT ![s] = None]
    /\ elapsed' = [elapsed EXCEPT ![s] = 0]
    /\ IF ret[s] = ErrorSentinel
       THEN /\ Send(s, FailedEvent("Balance unavailable."))
            /\ pc' = [pc EXCEPT ![s] = "done"]
            /\ running' = NoSession
       ELSE /\ pc' = [pc EXCEPT ![s] = "num_loop"]
            /\ UNCHANGED <<events, running>>
    /\ UNCHANGED <<CACHE, live, stack, ret, attempt, bearer_token,
                   balance_before, verification_href, verification_id, ends_at,
                   sleepLeft, obs, tokcalls, sms>>

\* number = None; max_wait_time = 30; start_time = now
VerifyNumInit(s) ==
    /\ Ready(s) /\ pc[s] = "num_init"
    /\ balance_after' = [balance_after EXCEPT ![s] = ret[s]]
    /\ reqlog' = [reqlog EXCEPT ![s] = <<>>]
    /\ number' = [number EXCEPT ![s] = None]
    /\ elapsed' = [elapsed EXCEPT ![s] = 0]
    /\ pc' = [pc EXCEPT ![s] = "num_loop"]
    /\ UNCHANGED <<CACHE, running, live, stack, ret, attempt, bearer_token,
                   balance_before, verification_href, verification_id, ends_at,
                   sleepLeft, events, obs, tokcalls, sms>>

\* a loop whose ceiling lets one more poll start at the end of the window
VerifyNumLoopInclusive(s) ==
    /\ Ready(s) /\ pc[s] = "num_loop"
    /\ running' = s
    /\ pc' = [pc EXCEPT ![s] = IF Falsy(number[s]) /\ elapsed[s] <= max_wait_time
                                THEN "num_get" ELSE "num_chk"]
    /\ UNCHANGED <<CACHE, live, stack, ret, attempt, locals, timers, events,
                   reqlog, obs, tokcalls, sms>>

\* a loop that goes on until both fields have arrived
VerifyNumLoopUntilBoth(s) ==
    /\ Ready(s) /\ pc[s] = "num_loop"
    /\ running' = s
    /\ pc' = [pc EXCEPT ![s] = IF (Falsy(number[s]) \/ ends_at[s] \in {Unbound, None})
                                   /\ elapsed[s] < max_wait_time
                                THEN "num_get" ELSE "num_chk"]
    /\ UNCHANGED <<CACHE, live, stack, ret, attempt, locals, timers, events,
                   reqlog, obs, tokcalls, sms>>

\* while not number and (now - start_time).total_seconds() < max_wait_time
VerifyNumLoop(s) ==
    /\ Ready(s) /\ pc[s] = "num_loop"
    /\ running' = s
    /\ pc' = [pc EXCEPT ![s] = IF Falsy(number[s]) /\ elapsed[s] < max_wait_time
                                THEN "num_get" ELSE "num_chk"]
    /\ UNCHANGED <<CACHE, live, stack, ret, attempt, locals, timers, events,
                   reqlog, obs, tokcalls, sms>>

\* what a status answer carries
StatusKind(r) ==
    IF r.status # "ok" THEN "fail"
    ELSE IF r.number # None /\ r.endsAt # None THEN "both"
    ELSE IF r.number # None THEN "numberOnly"
    ELSE IF r.endsAt # None THEN "endsAtOnly"
    ELSE "empty"

\* the href of whichever session has one
StatusUrlShared(s) ==
    IF \E t \in Sessions \ {s} : verification_href[t] # Unbound
    THEN verification_href[CHOOSE t \in Sessions \ {s} : verification_href[t] # Unbound]
    ELSE verification_href[s]

\* requests.get(verification_href, ...): the local of this invocation
StatusUrl(s) == verification_href[s]

\* the loop body: the GET of the status href, number and ends_at, the break
VerifyNumGet(s) ==
    /\ Ready(s) /\ pc[s] = "num_get"
    /\ \E r \in StatusResponses(StatusUrl(s)), d \in Durations :
        /\ Advance(d)
        /\ obs' = [obs EXCEPT ![s].lastResp = r.status,
                              ![s].lastStatus = StatusKind(r),
                              ![s].sawBoth = obs[s].sawBoth \/ StatusKind(r) = "both",
                              ![s].numberSets = obs[s].numberSets
                                  + (IF r.status = "ok" /\ ~Falsy(r.number) THEN 1 ELSE 0),
                              ![s].foreign = obs[s].foreign \/ StatusUrl(s) # HrefOf(s)]
        /\ IF r.status = "ok"
           THEN /\ number' = [number EXCEPT ![s] = r.number]
                /\ ends_at' = [ends_at EXCEPT ![s] = r.endsAt]
                /\ pc' = [pc EXCEPT ![s] = IF ~Falsy(r.number) /\ ~Falsy(r.endsAt)
                                            THEN "num_chk" ELSE "num_sleep"]
           ELSE /\ pc' = [pc EXCEPT ![s] = "num_sleep"]
                /\ UNCHANGED <<number, ends_at>>
    /\ UNCHANGED <<CACHE, running, live, stack, ret, attempt, bearer_token,
                   balance_before, balance_after, verification_href, verification_id,
                   events, reqlog, tokcalls, sms>>

\* await asyncio.sleep(1)
VerifyNumSleep(s) ==
    /\ Ready(s) /\ pc[s] = "num_sleep"
    /\ sleepLeft' = [sleepLeft EXCEPT ![s] = NumberPollInterval]
    /\ running' = NoSession
    /\ pc' = [pc EXCEPT ![s] = "num_loop"]
    /\ UNCHANGED <<CACHE, live, stack, ret, attempt, locals, elapsed, events,
                   reqlog, obs, tokcalls, sms>>

\* a check that forgets ends_at
NumberMissingNumberOnly(s) == Falsy(number[s])

\* not number or not ends_at
NumberMissing(s) == Falsy(number[s]) \/ Falsy(ends_at[s])

\* the failure branch without its return: the report is sent and the OTP phase starts
VerifyNumChkNoReturn(s) ==
    /\ Ready(s) /\ pc[s] = "num_chk"
    /\ running' = NoSession
    /\ IF Falsy(number[s]) \/ Falsy(ends_at[s])
       THEN Send(s, FailedEvent("Number not received. Try again."))
       ELSE Send(s, PendingEvent(number[s], balance_before[s], balance_after[s]))
    /\ pc' = [pc EXCEPT ![s] = "otp_entry"]
    /\ UNCHANGED <<CACHE, live, stack, ret, attempt, locals, timers, reqlog, obs,
                   tokcalls, sms>>

\* if not number or not ends_at: report and return; otherwise send the Pending embed
\* (ends_at is read only when number is set; reading it unassigned would raise)
VerifyNumChk(s) ==
    /\ Ready(s) /\ pc[s] = "num_chk"
    /\ running' = NoSession
    /\ IF ~Falsy(number[s]) /\ ends_at[s] = Unbound
       THEN /\ pc' = [pc EXCEPT ![s] = "crashed"]
            /\ UNCHANGED events
       ELSE IF NumberMissing(s)
       THEN /\ Send(s, FailedEvent("Number not received. Try again."))
            /\ pc' = [pc EXCEPT ![s] = "done"]
       ELSE /\ Send(s, PendingEvent(number[s], balance_before[s], balance_after[s]))
            /\ pc' = [pc EXCEPT ![s] = "otp_entry"]
    /\ UNCHANGED <<CACHE, live, stack, ret, attempt, locals, timers, reqlog, obs,
                   tokcalls, sms>>

----------------------------------------------------------------------------
(* check_otp *)

\* bearer_token = generate_bearer_token()
CheckOtpEntry(s) ==
    /\ Ready(s) /\ pc[s] = "otp_entry"
    /\ running' = s
    /\ Call(s, "gbt_entry", "otp_init")
    /\ UNCHANGED <<CACHE, live, ret, attempt, locals, timers, events, reqlog, obs,
                   tokcalls, sms>>

\* headers, sms_url; timeout = now + timedelta(minutes=5)
CheckOtpInit(s) ==
    /\ Ready(s) /\ pc[s] = "otp_init"
    /\ bearer_token' = [bearer_token EXCEPT ![s] = ret[s]]
    /\ reqlog' = [reqlog EXCEPT ![s] = <<>>]
    /\ elapsed' = [elapsed EXCEPT ![s] = 0]
    /\ pc' = [pc EXCEPT ![s] = "otp_loop"]
    /\ UNCHANGED <<CACHE, running, live, stack, ret, attempt, balance_before,
                   balance_after, verification_href, verification_id, number, ends_at,
                   sleepLeft, events, obs, tokcalls, sms>>

\* a loop that reports a failure when its window runs out
CheckOtpLoopReportsTimeout(s) ==
    /\ Ready(s) /\ pc[s] = "otp_loop"
    /\ IF elapsed[s] < OtpWindow
       THEN /\ pc' = [pc EXCEPT ![s] = "otp_get"]
            /\ running' = s
            /\ UNCHANGED events
       ELSE /\ Send(s, FailedEvent("OTP not received."))
            /\ pc' = [pc EXCEPT ![s] = "done"]
            /\ running' = NoSession
    /\ UNCHANGED <<CACHE, live, stack, ret, attempt, locals, timers,
                   reqlog, obs, tokcalls, sms>>

\* a loop that reports completion when its window runs out
CheckOtpLoopCompletes(s) ==
    /\ Ready(s) /\ pc[s] = "otp_loop"
    /\ IF elapsed[s] < OtpWindow
       THEN /\ pc' = [pc EXCEPT ![s] = "otp_get"]
            /\ running' = s
            /\ UNCHANGED events
       ELSE /\ Send(s, CompletedEvent(number[s], balance_after[s], NoOtpFound))
            /\ pc' = [pc EXCEPT ![s] = "done"]
            /\ running' = NoSession
    /\ UNCHANGED <<CACHE, live, stack, ret, attempt, locals, timers,
                   reqlog, obs, tokcalls, sms>>

\* while now < timeout; falling out of the loop returns without a report
CheckOtpLoop(s) ==
    /\ Ready(s) /\ pc[s] = "otp_loop"
    /\ IF elapsed[s] < OtpWindow
       THEN /\ pc' = [pc EXCEPT ![s] = "otp_get"]
            /\ running' = s
       ELSE /\ pc' = [pc EXCEPT ![s] = "done"]
            /\ running' = NoSession
    /\ UNCHANGED <<CACHE, live, stack, ret, attempt, locals, timers, events,
                   reqlog, obs, tokcalls, sms>>

\* sms_url: ...?ReservationId={verification_id}, the parameter of this call
SmsId(s) == verification_id[s]

\* the loop body: the GET of the messages, the OTP, the Completed embed, the return
CheckOtpGet(s) ==
    /\ Ready(s) /\ pc[s] = "otp_get"
    /\ \E r \in MessageResponses, d \in Durations :
        /\ Advance(d)
        /\ obs' = [obs EXCEPT
                     ![s].lastResp = r.status,
                     ![s].msgPolled = TRUE,
                     ![s].nonEmpty = obs[s].nonEmpty + (IF r.messages # <<>> THEN 1 ELSE 0),
                     ![s].latePolls = obs[s].latePolls
                                        + (IF Emitted(s, "Completed") THEN 1 ELSE 0),
                     ![s].inbox = IF obs[s].inbox = <<>> THEN r.messages ELSE obs[s].inbox,
                     ![s].foreign = obs[s].foreign \/ SmsId(s) \notin {IdOf(s), None},
                     ![s].cooldown = 0]
        /\ IF r.status # "ok"
           THEN /\ pc' = [pc EXCEPT ![s] = "otp_sleep_exc"]
                /\ UNCHANGED <<events, running>>
           ELSE IF r.messages # <<>>
           THEN /\ Send(s, CompletedEvent(number[s], balance_after[s],
                                          ExtractOtp(LatestSms(r.messages))))
                /\ pc' = [pc EXCEPT ![s] = "done"]
                /\ running' = NoSession
           ELSE /\ pc' = [pc EXCEPT ![s] = "otp_sleep"]
                /\ UNCHANGED <<events, running>>
    /\ UNCHANGED <<CACHE, live, stack, ret, attempt, locals, reqlog, tokcalls, sms>>

\* except ...: logging.warning; await asyncio.sleep(5)
CheckOtpSleepExc(s) ==
    /\ Ready(s) /\ pc[s] = "otp_sleep_exc"
    /\ sleepLeft' = [sleepLeft EXCEPT ![s] = OtpPollInterval]
    /\ obs' = [obs EXCEPT ![s].cooldown = obs[s].cooldown + OtpPollInterval]
    /\ running' = NoSession
    /\ pc' = [pc EXCEPT ![s] = "otp_sleep"]
    /\ UNCHANGED <<CACHE, live, stack, ret, attempt, locals, elapsed, events,
                   reqlog, tokcalls, sms>>

\* the loop's closing await asyncio.sleep(5)
CheckOtpSleep(s) ==
    /\ Ready(s) /\ pc[s] = "otp_sleep"
    /\ sleepLeft' = [sleepLeft EXCEPT ![s] = OtpPollInterval]
    /\ obs' = [obs EXCEPT ![s].cooldown = obs[s].cooldown + OtpPollInterval]
    /\ running' = NoSession
    /\ pc' = [pc EXCEPT ![s] = "otp_loop"]
    /\ UNCHANGED <<CACHE, live, stack, ret, attempt, locals, elapsed, events,
                   reqlog, tokcalls, sms>>

----------------------------------------------------------------------------
(* The event loop *)

Ended(s) == pc[s] \in {"idle", "done", "crashed"}

\* one unit of time passes while every session in progress sleeps
Tick ==
    /\ running = NoSession
    /\ \E s \in Sessions : sleepLeft[s] > 0
    /\ \A s \in Sessions : Ended(s) \/ sleepLeft[s] > 0
    /\ Advance(1)
    /\ UNCHANGED <<CACHE, running, live, pc, stack, ret, attempt, locals, events,
                   reqlog, obs, tokcalls, sms>>

Next ==
    \/ \E s \in Sessions :
        \/ Invoke(s)
        \/ GbtCheck(s)
        \/ GbtPost(s)
        \/ GbEntry(s)
        \/ GbTokChk(s)
        \/ GbGet(s)
        \/ VerifyAuthChk(s)
        \/ VerifyCreate(s)
        \/ VerifyNumInit(s)
        \/ VerifyNumLoop(s)
        \/ VerifyNumGet(s)
        \/ VerifyNumSleep(s)
        \/ VerifyNumChk(s)
        \/ CheckOtpEntry(s)
        \/ CheckOtpInit(s)
        \/ CheckOtpLoop(s)
        \/ CheckOtpGet(s)
        \/ CheckOtpSleepExc(s)
        \/ CheckOtpSleep(s)
    \/ Tick

Spec == Init /\ [][Next]_vars

\* the same, with time advancing and every request returning or timing out:
\* a step that can be taken is taken
SpecLive == Init /\ [][Next]_vars /\ WF_vars(Next)

----------------------------------------------------------------------------
(* The OTP extraction on its own: texts are put together from pieces, and    *)
(* the extraction of check_otp is applied to them.                           *)

\* how many pieces a text is put together from
MaxPieces == 4

\* "x", "_", " ", "7", "1234", "56789012"
Pieces ==
    { <<"x">>, <<"_">>, <<" ">>, <<"7">>,
      <<"1", "2", "3", "4">>,
      <<"5", "6", "7", "8", "9", "0", "1", "2">> }

InitOtp ==
    /\ CACHE = [k \in {} |-> None]
    /\ running = NoSession
    /\ live = {}
    /\ pc = [s \in Sessions |-> "idle"]
    /\ stack = [s \in Sessions |-> <<>>]
    /\ ret = [s \in Sessions |-> None]
    /\ attempt = [s \in Sessions |-> 0]
    /\ bearer_token = [s \in Sessions |-> Unbound]
    /\ balance_before = [s \in Sessions |-> Unbound]
    /\ balance_after = [s \in Sessions |-> Unbound]
    /\ verification_href = [s \in Sessions |-> Unbound]
    /\ verification_id = [s \in Sessions |-> Unbound]
    /\ number = [s \in Sessions |-> Unbound]
    /\ ends_at = [s \in Sessions |-> Unbound]
    /\ elapsed = [s \in Sessions |-> 0]
    /\ sleepLeft = [s \in Sessions |-> 0]
    /\ events = [s \in Sessions |-> <<>>]
    /\ reqlog = [s \in Sessions |-> <<>>]
    /\ obs = [s \in Sessions |-> NoObs]
    /\ tokcalls = [n |-> 0, prev |-> NoCall, cur |-> NoCall, won |-> FALSE, late |-> 0]
    /\ sms = [text |-> <<>>, scanned |-> FALSE, otp |-> NoText, room |-> MaxPieces]

\* a message text grows by one piece
AppendPiece ==
    /\ ~sms.scanned /\ sms.room > 0
    /\ \E p \in Pieces :
         sms' = [sms EXCEPT !.text = sms.text \o p, !.room = sms.room - 1]
    /\ UNCHANGED sessionVars

\* otp_match = re.findall(...); otp = otp_match[-1] if otp_match else "No OTP found"
ScanSms ==
    /\ ~sms.scanned
    /\ sms' = [sms EXCEPT !.scanned = TRUE, !.otp = ExtractOtp(sms.text)]
    /\ UNCHANGED sessionVars

NextOtp == AppendPiece \/ ScanSms

SpecOtp == InitOtp /\ [][NextOtp]_vars

----------------------------------------------------------------------------
(* The two retrying functions on their own: a caller that calls              *)
(* generate_bearer_token and get_balance again and again.                    *)

ClientLabels == {"idle", "tok_done", "bal_done"}

\* generate_bearer_token()
CallGenerateBearerToken(s) ==
    /\ s \in live /\ pc[s] \in ClientLabels
    /\ running' = s
    /\ pc' = [pc EXCEPT ![s] = "gbt_entry"]
    /\ stack' = [stack EXCEPT ![s] = <<"tok_done">>]
    /\ UNCHANGED <<CACHE, live, ret, attempt, locals, timers, events, reqlog, obs,
                   tokcalls, sms>>

\* get_balance()
CallGetBalance(s) ==
    /\ s \in live /\ pc[s] \in ClientLabels
    /\ running' = s
    /\ pc' = [pc EXCEPT ![s] = "gb_entry"]
    /\ stack' = [stack EXCEPT ![s] = <<"bal_done">>]
    /\ UNCHANGED <<CACHE, live, ret, attempt, locals, timers, events, reqlog, obs,
                   tokcalls, sms>>

NextToken ==
    \E s \in Sessions :
        \/ CallGenerateBearerToken(s)
        \/ CallGetBalance(s)
        \/ GbtCheck(s)
        \/ GbtPost(s)
        \/ GbEntry(s)
        \/ GbTokChk(s)
        \/ GbGet(s)

SpecToken == Init /\ [][NextToken]_vars

----------------------------------------------------------------------------
(* Two invocations of verify on the one event loop.  They interleave at the  *)
(* awaits only: between two awaits a session holds the loop.                  *)

\* how far into a polling window the two-session behaviours are followed
ConcHorizon == 5

InitConc ==
    /\ CACHE = [k \in {} |-> None]
    /\ running = NoSession
    /\ live = Sessions
    /\ pc = [s \in Sessions |-> "idle"]
    /\ stack = [s \in Sessions |-> <<>>]
    /\ ret = [s \in Sessions |-> None]
    /\ attempt = [s \in Sessions |-> 0]
    /\ bearer_token = [s \in Sessions |-> Unbound]
    /\ balance_before = [s \in Sessions |-> Unbound]
    /\ balance_after = [s \in Sessions |-> Unbound]
    /\ verification_href = [s \in Sessions |-> Unbound]
    /\ verification_id = [s \in Sessions |-> Unbound]
    /\ number = [s \in Sessions |-> Unbound]
    /\ ends_at = [s \in Sessions |-> Unbound]
    /\ elapsed = [s \in Sessions |-> 0]
    /\ sleepLeft = [s \in Sessions |-> 0]
    /\ events = [s \in Sessions |-> <<>>]
    /\ reqlog = [s \in Sessions |-> <<>>]
    /\ obs = [s \in Sessions |-> NoObs]
    /\ tokcalls = [n |-> 0, prev |-> NoCall, cur |-> NoCall, won |-> FALSE, late |-> 0]
    /\ sms = [text |-> <<>>, scanned |-> FALSE, otp |-> NoText, room |-> 0]

\* the provider as the two sessions meet it: the balance can be read, and a
\* polling window is followed for its first ConcHorizon units
Within ==
    \A s \in Sessions :
        /\ elapsed[s] <= ConcHorizon
        /\ balance_before[s] # ErrorSentinel
        /\ balance_after[s] # ErrorSentinel

NextConc ==
    \/ \E s \in Sessions :
        \/ Invoke(s) /\ Within'
        \/ GbtCheck(s) /\ Within'
        \/ GbtPost(s) /\ Within'
        \/ GbEntry(s) /\ Within'
        \/ GbTokChk(s) /\ Within'
        \/ GbGet(s) /\ Within'
        \/ VerifyAuthChk(s) /\ Within'
        \/ VerifyCreate(s) /\ Within'
        \/ VerifyNumInit(s) /\ Within'
        \/ VerifyNumLoop(s) /\ Within'
        \/ VerifyNumGet(s) /\ Within'
        \/ VerifyNumSleep(s) /\ Within'
        \/ VerifyNumChk(s) /\ Within'
        \/ CheckOtpEntry(s) /\ Within'
        \/ CheckOtpInit(s) /\ Within'
        \/ CheckOtpLoop(s) /\ Within'
        \/ CheckOtpGet(s) /\ Within'
        \/ CheckOtpSleepExc(s) /\ Within'
        \/ CheckOtpSleep(s) /\ Within'
    \/ Tick /\ Within'

SpecConc == InitConc /\ [][NextConc]_vars

----------------------------------------------------------------------------
(* The session state of the specification, read off the code position *)

\* the position in verify / check_otp, whatever call is in progress
BaseLabel(s) == IF stack[s] = <<>> THEN pc[s] ELSE stack[s][Len(stack[s])]

LastEventType(s) == IF events[s] = <<>> THEN "none" ELSE events[s][Len(events[s])].type

SessionState(s) ==
    IF LastEventType(s) = "Failed" THEN "FAILED"
    ELSE IF LastEventType(s) = "Completed" THEN "COMPLETED"
    ELSE IF BaseLabel(s) = "idle" THEN "NOT_STARTED"
    ELSE IF BaseLabel(s) = "v_authchk" THEN "AUTHENTICATING"
    ELSE IF BaseLabel(s) \in {"v_create", "num_init"} THEN "CREATING"
    ELSE IF BaseLabel(s) \in {"num_loop", "num_get", "num_sleep", "num_chk"}
         THEN "AWAITING_NUMBER"
    ELSE "AWAITING_OTP"

Rank(st) ==
    CASE st = "NOT_STARTED" -> 0
      [] st = "AUTHENTICATING" -> 1
      [] st = "CREATING" -> 2
      [] st = "AWAITING_NUMBER" -> 3
      [] st = "AWAITING_OTP" -> 4
      [] st = "COMPLETED" -> 5
      [] st = "FAILED" -> 5

TerminalStates == {"COMPLETED", "FAILED"}

----------------------------------------------------------------------------
(* Claims *)

NumberNotReceived == FailedEvent("Number not received. Try again.")

\* C1: in the number phase a status answer that carries only one of number and
\* endsAt does not end the phase: the loop is left only after an answer with both
\* fields or once the 30-unit window has run out.
C1_PartialKeepsPolling ==
    \A s \in Sessions :
        pc[s] = "num_chk" => obs[s].lastStatus = "both" \/ elapsed[s] >= max_wait_time

\* C2: if no status answer carried both number and endsAt, the session emits no
\* Pending and no Completed event and issues no message poll, and once it has
\* ended its only report is the Failed "number not received".
C2_NoBothMeansNumberNotReceived ==
    \A s \in Sessions :
        (obs[s].lastStatus # "none" /\ ~obs[s].sawBoth) =>
            /\ ~Emitted(s, "Pending")
            /\ ~Emitted(s, "Completed")
            /\ ~obs[s].msgPolled
            /\ BaseLabel(s) \in {"num_loop", "num_get", "num_sleep", "num_chk", "done"}
            /\ pc[s] = "done" => events[s] = <<NumberNotReceived>>

\* a session ended "number not received" after a window of partial answers
C2_Witness ==
    \E s \in Sessions :
        /\ pc[s] = "done" /\ ~obs[s].sawBoth /\ obs[s].lastStatus = "endsAtOnly"
        /\ elapsed[s] >= max_wait_time
        /\ events[s] = <<NumberNotReceived>>

\* C3 as stated: two successive generate_bearer_token calls issue at most one
\* request to the auth endpoint in total.
C3_AtMostOneRequest ==
    tokcalls.n = 2 => tokcalls.prev.reqs + tokcalls.cur.reqs <= 1

\* C3 amended: two successive generate_bearer_token calls get at most one successful
\* answer from the auth endpoint in total, each issues at most 3 requests, and a
\* call that finds a cached entry issues none.
C3_AtMostOneHandshake ==
    /\ tokcalls.prev.oks + tokcalls.cur.oks <= 1
    /\ tokcalls.prev.reqs <= MaxAttempts /\ tokcalls.cur.reqs <= MaxAttempts
    /\ tokcalls.cur.hit => tokcalls.cur.reqs = 0
    /\ tokcalls.prev.oks = 1 => tokcalls.cur.hit \/ tokcalls.n < 2

\* a call that failed three times, followed by a call that retried and succeeded
C3_Witness ==
    /\ tokcalls.n = 2
    /\ tokcalls.prev.reqs = MaxAttempts /\ tokcalls.prev.oks = 0
    /\ tokcalls.cur.reqs = 2 /\ tokcalls.cur.oks = 1

\* C4: after an authenticated call got an authorization-rejected answer, and until
\* generate_bearer_token is called again, the cache holds no token.
C4_RejectionClearsCache ==
    \A s \in Sessions : obs[s].lastResp = "rejected" => "token" \notin DOMAIN CACHE

GbtReturned(s) == pc[s] \in {"tok_done", "v_authchk", "gb_tokchk", "otp_init"}
BalanceReturned(s) == pc[s] \in {"bal_done", "v_create", "num_init"}

FailsTwiceThenOk(log) ==
    Len(log) = 3 /\ log[1] \in Failures /\ log[2] \in Failures /\ log[3] = "ok"

AllFail(log) == log # <<>> /\ \A i \in 1..Len(log) : log[i] \in Failures

\* C5: generate_bearer_token and get_balance make at most 3 requests; after two
\* failures and a success they return the token / the balance, and after failures
\* only they return None / "Error" and have made exactly 3 requests.
C5_RetryBudget ==
    \A s \in Sessions :
        /\ Len(reqlog[s]) <= 3
        /\ GbtReturned(s) =>
            /\ FailsTwiceThenOk(reqlog[s]) => ret[s] \in Tokens
            /\ AllFail(reqlog[s]) => Len(reqlog[s]) = 3 /\ ret[s] = None
        /\ BalanceReturned(s) =>
            /\ FailsTwiceThenOk(reqlog[s]) => ret[s] \in Balances
            /\ AllFail(reqlog[s]) => Len(reqlog[s]) = 3 /\ ret[s] = ErrorSentinel

\* get_balance has returned the balance on its third request
C5_Witness ==
    \E s \in Sessions :
        /\ pc[s] = "bal_done" /\ reqlog[s] = <<"fail", "rejected", "ok">>
        /\ ret[s] \in Balances

\* the maximal runs of digits of a text, as <<first index, last index>>
DigitRuns(t) ==
    { r \in (1..Len(t)) \X (1..Len(t)) :
        /\ r[1] <= r[2]
        /\ \A k \in r[1]..r[2] : IsDigit(t[k])
        /\ r[1] = 1 \/ ~IsDigit(t[r[1] - 1])
        /\ r[2] = Len(t) \/ ~IsDigit(t[r[2] + 1]) }

\* the runs of 4 to 8 digits
OtpRuns(t) == { r \in DigitRuns(t) : r[2] - r[1] + 1 \in 4..8 }

\* a run with no letter and no underscore next to it
Delimited(t, r) ==
    /\ r[1] = 1 \/ ~IsWord(t[r[1] - 1])
    /\ r[2] = Len(t) \/ ~IsWord(t[r[2] + 1])

DelimitedOtpRuns(t) == { r \in OtpRuns(t) : Delimited(t, r) }

\* the text of the last of the runs, or the marker if there is none
LastRunOrMarker(t, runs) ==
    IF runs = {} THEN NoOtpFound
    ELSE LET r == CHOOSE r \in runs : \A q \in runs : q[1] <= r[1]
         IN  SubSeq(t, r[1], r[2])

\* C6 as stated: the extracted OTP is the last run of 4 to 8 consecutive digits of
\* the text, and the marker "No OTP found" exactly when there is no such run.
C6_LastDigitRun ==
    sms.scanned =>
        /\ sms.otp = LastRunOrMarker(sms.text, OtpRuns(sms.text))
        /\ sms.otp = NoOtpFound <=> OtpRuns(sms.text) = {}

\* C6 amended: the extracted OTP is the last run of 4 to 8 consecutive digits that
\* has no letter, digit or underscore next to it, and the marker exactly when
\* there is no such run.
C6_LastDelimitedDigitRun ==
    sms.scanned =>
        /\ sms.otp = LastRunOrMarker(sms.text, DelimitedOtpRuns(sms.text))
        /\ sms.otp = NoOtpFound <=> DelimitedOtpRuns(sms.text) = {}

\* a text whose last run of 4 to 8 digits touches a letter, after a run that
\* stands alone: the run standing alone is the OTP
C6_Witness ==
    /\ sms.scanned
    /\ \E r \in DelimitedOtpRuns(sms.text) :
         /\ \E q \in OtpRuns(sms.text) : q[1] > r[1] /\ ~Delimited(sms.text, q)
         /\ sms.otp = SubSeq(sms.text, r[1], r[2])

\* C7: a Completed event is emitted only if a message poll of the session returned
\* a non-empty message list.
C7_CompletedOnlyWithMessage ==
    \A s \in Sessions : Emitted(s, "Completed") => obs[s].nonEmpty >= 1

\* the whole OTP window went by with empty lists and failures only, and the
\* session ended without a Completed event
C7_Witness ==
    \E s \in Sessions :
        /\ pc[s] = "done" /\ obs[s].msgPolled /\ obs[s].nonEmpty = 0
        /\ elapsed[s] >= OtpWindow
        /\ ~Emitted(s, "Completed")

\* C8: the first message poll that returns a non-empty list ends the session on
\* that poll with a Completed event whose OTP is extracted from the last message
\* of the list ("No OTP found" included), and no message poll follows.
C8_FirstMessageCompletes ==
    \A s \in Sessions :
        obs[s].nonEmpty >= 1 =>
            /\ obs[s].nonEmpty = 1
            /\ obs[s].latePolls = 0
            /\ pc[s] = "done"
            /\ events[s][Len(events[s])] =
                 CompletedEvent(number[s], balance_after[s],
                                ExtractOtp(obs[s].inbox[Len(obs[s].inbox)]))

\* a session completed by a list whose last message has no digits, after one that has
C8_Witness ==
    \E s \in Sessions :
        /\ Len(obs[s].inbox) = 2
        /\ ExtractOtp(obs[s].inbox[1]) # NoOtpFound
        /\ LastEventType(s) = "Completed"
        /\ events[s][Len(events[s])].otp = NoOtpFound

\* C9: a message poll is issued only after the Pending event, which carries the
\* assigned number and the two balance snapshots, and every Completed event has a
\* Pending event before it.
C9_PendingBeforeOtp ==
    \A s \in Sessions :
        /\ (obs[s].msgPolled \/ pc[s] = "otp_get") => Emitted(s, "Pending")
        /\ \A j \in 1..Len(events[s]) :
             events[s][j].type = "Completed" =>
                \E i \in 1..(j - 1) : events[s][i].type = "Pending"
        /\ \A i \in 1..Len(events[s]) :
             events[s][i].type = "Pending" =>
                /\ ~Falsy(number[s])
                /\ events[s][i] = [type |-> "Pending", detail |-> None,
                                   number |-> number[s],
                                   balanceBefore |-> balance_before[s],
                                   balanceAfter |-> balance_after[s], otp |-> NoText]

\* a session about to issue its first message poll, with differing snapshots shown
C9_Witness ==
    \E s \in Sessions :
        /\ pc[s] = "otp_get" /\ ~obs[s].msgPolled
        /\ events[s][1].type = "Pending"
        /\ events[s][1].balanceBefore = ErrorSentinel
        /\ events[s][1].balanceAfter \in Balances

\* a change of state goes forward, or to FAILED, and never out of a terminal state
StateStepOk(a, b) ==
    a = b \/ (a \notin TerminalStates /\ (b = "FAILED" \/ Rank(b) > Rank(a)))

\* C10: the state of a session only moves forward through AUTHENTICATING, CREATING,
\* AWAITING_NUMBER, AWAITING_OTP, COMPLETED; FAILED is entered only from a
\* non-terminal state; COMPLETED and FAILED are never left.
C10_ForwardOnly ==
    [][\A s \in Sessions : StateStepOk(SessionState(s), SessionState(s)')]_vars

\* a session that went through every state up to COMPLETED
C10_Witness ==
    \E s \in Sessions : SessionState(s) = "COMPLETED" /\ Emitted(s, "Pending")

\* C11: the number of a session is assigned a non-empty value by at most one
\* status poll and is not replaced afterwards, and every Completed event shows
\* the number of the Pending event of the same session.
C11_NumberSetOnce ==
    \A s \in Sessions :
        /\ obs[s].numberSets <= 1
        /\ obs[s].numberSets = 1 => ~Falsy(number[s])
        /\ \A i, j \in 1..Len(events[s]) :
             events[s][i].type = "Pending" /\ events[s][j].type = "Completed" =>
                /\ events[s][j].number = events[s][i].number
                /\ events[s][i].number = number[s]

\* a completed session: one poll gave it its number, and both events show it
C11_Witness ==
    \E s \in Sessions :
        /\ obs[s].numberSets = 1
        /\ Len(events[s]) = 2
        /\ events[s][1].type = "Pending" /\ events[s][2].type = "Completed"
        /\ events[s][2].number = events[s][1].number
        /\ ~Falsy(events[s][1].number)

AuthFailed == FailedEvent("Failed to authenticate with the API.")

CreationFailures ==
    { FailedEvent("Verification request failed: exception"),
      FailedEvent("Verification request failed. Response") }

\* C12: a session that gets no token, or whose creation request fails or is
\* answered without a body or without href, emits exactly one Failed report and
\* stops: the creation request is sent at most once per session (not at all
\* without a token), and after such a failure there is no status poll, no
\* message poll and no Pending or Completed event.
C12_EarlyFailureStops ==
    \A s \in Sessions :
        /\ obs[s].creates <= 1
        /\ (pc[s] = "done" /\ verification_href[s] = Unbound) =>
              /\ Len(events[s]) = 1
              /\ events[s][1] \in {AuthFailed} \cup CreationFailures
              /\ Falsy(bearer_token[s]) <=> events[s][1] = AuthFailed
        /\ (events[s] # <<>> /\ events[s][1] \in {AuthFailed} \cup CreationFailures) =>
              /\ Len(events[s]) = 1
              /\ pc[s] = "done"
              /\ obs[s].lastStatus = "none" /\ obs[s].numberSets = 0
              /\ ~obs[s].msgPolled
              /\ events[s][1] = AuthFailed => obs[s].creates = 0
              /\ events[s][1] \in CreationFailures => obs[s].creates = 1

\* a session with a token, ended by a creation answer that is a success without href
C12_Witness ==
    \E s \in Sessions :
        /\ pc[s] = "done" /\ obs[s].lastResp = "ok" /\ obs[s].creates = 1
        /\ bearer_token[s] \in Tokens
        /\ events[s] = <<FailedEvent("Verification request failed. Response")>>

\* C13: a balance read that returns the "Error" sentinel, before or after the
\* creation, does not fail the session: with the sentinel as balance before, the
\* creation request is still sent, with the sentinel as balance after, the number
\* phase is entered and polls, and every Failed report has a cause of its own (no
\* token, a failed creation, no number).
C13_BalanceErrorNotFatal ==
    \A s \in Sessions :
        /\ balance_before[s] = ErrorSentinel => obs[s].creates = 1
        /\ balance_after[s] = ErrorSentinel =>
              /\ BaseLabel(s) \in TimedLabels \cup {"num_chk", "otp_entry", "otp_init",
                                                   "done", "crashed"}
              /\ BaseLabel(s) \in {"done", "crashed"} => obs[s].lastStatus # "none"
        /\ \A i \in 1..Len(events[s]) :
             events[s][i].type = "Failed" =>
                \/ events[s][i] = AuthFailed /\ Falsy(bearer_token[s])
                \/ events[s][i] \in CreationFailures /\ verification_href[s] = Unbound
                \/ events[s][i] = NumberNotReceived /\ NumberMissing(s)

\* a session that completed although neither balance could be read
C13_Witness ==
    \E s \in Sessions :
        /\ balance_before[s] = ErrorSentinel /\ balance_after[s] = ErrorSentinel
        /\ LastEventType(s) = "Completed"
        /\ events[s][1].balanceBefore = ErrorSentinel
        /\ events[s][1].balanceAfter = ErrorSentinel

\* C14: with two sessions on the event loop at most one authentication handshake
\* is in flight at any time, and the session whose handshake it is holds the
\* loop; once a handshake has been answered with success no further handshake
\* request is issued, and every call of generate_bearer_token made from then on
\* returns the cached entry.
C14_OneHandshakeAtATime ==
    /\ Cardinality({s \in Sessions : pc[s] = "gbt_post"}) <= 1
    /\ \A s \in Sessions : pc[s] = "gbt_post" => running = s
    /\ tokcalls.late = 0
    /\ tokcalls.won =>
          /\ Cached
          /\ \A s \in Sessions :
                pc[s] \in {"v_authchk", "gb_tokchk", "otp_init"} => ret[s] = CACHE["token"]

\* one session sleeps between two status polls while the other, invoked
\* meanwhile, has been handed the cached token without a handshake
C14_Witness ==
    \E s, t \in Sessions :
        /\ s # t
        /\ pc[s] = "num_loop" /\ sleepLeft[s] > 0 /\ bearer_token[s] \in Tokens
        /\ pc[t] = "v_authchk" /\ ret[t] \in Tokens
        /\ tokcalls.cur.hit /\ tokcalls.cur.reqs = 0

\* C15: with two sessions interleaved, each session polls its own status href
\* and its own ReservationId only, the number in its Pending and Completed events
\* is one that its own href answers with, and the OTP in its Completed event is
\* extracted from the answer to its own message poll.
C15_NoCrossContamination ==
    \A s \in Sessions :
        /\ ~obs[s].foreign
        /\ pc[s] = "num_get" => StatusUrl(s) = HrefOf(s)
        /\ pc[s] = "otp_get" => SmsId(s) \in {IdOf(s), None}
        /\ \A t \in Sessions \ {s} :
             verification_id[s] \notin {Unbound, None} => SmsId(s) # SmsId(t)
        /\ \A i \in 1..Len(events[s]) :
             /\ events[s][i].type \in {"Pending", "Completed"} =>
                   events[s][i].number \in NumbersOf(HrefOf(s))
             /\ events[s][i].type = "Completed" =>
                   /\ obs[s].inbox # <<>>
                   /\ events[s][i].otp = ExtractOtp(LatestSms(obs[s].inbox))

\* one session waits for its OTP, asleep between two message polls, while the
\* other, started after it, has completed with another number
C15_Witness ==
    \E s, t \in Sessions :
        /\ s # t
        /\ LastEventType(s) = "Pending" /\ pc[s] = "otp_loop" /\ sleepLeft[s] > 0
        /\ obs[s].msgPolled
        /\ LastEventType(t) = "Completed"
        /\ events[t][2].number # events[s][1].number
        /\ verification_id[s] # verification_id[t]

\* C16: when the OTP window has run out and no message poll returned a message,
\* check_otp has returned without a Completed and without a Failed event: the
\* Pending event is the only and last event of the session.
C16_SilentOnExhaustion ==
    \A s \in Sessions :
        (pc[s] = "done" /\ obs[s].msgPolled /\ obs[s].nonEmpty = 0) =>
            /\ elapsed[s] >= OtpWindow
            /\ ~Emitted(s, "Completed") /\ ~Emitted(s, "Failed")
            /\ events[s] = <<PendingEvent(number[s], balance_before[s], balance_after[s])>>

\* a window spent on polls of which the last failed, Pending still the last event
C16_Witness ==
    \E s \in Sessions :
        /\ pc[s] = "done" /\ obs[s].nonEmpty = 0 /\ obs[s].lastResp \in Failures
        /\ elapsed[s] >= OtpWindow
        /\ LastEventType(s) = "Pending" /\ Len(events[s]) = 1

\* C17: when a message poll is issued after an earlier one, exactly one 5-unit
\* cooldown has been slept since that earlier poll, whether it failed or
\* returned an empty list.
C17_OneCooldownPerIteration ==
    \A s \in Sessions :
        (pc[s] = "otp_get" /\ obs[s].msgPolled) => obs[s].cooldown = OtpPollInterval

\* C18: every session ends; a status poll is started only before 30 units of the
\* number phase have elapsed, a message poll only before 5 minutes of the OTP
\* phase have elapsed, and a retry loop makes at most 3 attempts.
C18_Terminates ==
    /\ [](\A s \in Sessions :
            /\ pc[s] = "num_get" => elapsed[s] < max_wait_time
            /\ pc[s] = "otp_get" => elapsed[s] < OtpWindow
            /\ attempt[s] <= MaxAttempts
            /\ Len(reqlog[s]) <= MaxAttempts)
    /\ <>(\A s \in live : pc[s] \in {"done", "crashed"})

\* a session that ended after spending both windows to their last poll
C18_Witness ==
    \E s \in live :
        /\ pc[s] = "done" /\ Emitted(s, "Pending")
        /\ elapsed[s] >= OtpWindow
        /\ obs[s].lastStatus = "both" /\ obs[s].nonEmpty = 0

\* C19: in the two retry loops a request that follows a failed one is issued
\* after a delay: some time has passed since the failure.
C19_DelayBetweenAttempts ==
    \A s \in Sessions :
        (pc[s] \in {"gbt_post", "gb_get"} /\ attempt[s] >= 1) => obs[s].gap > 0

\* C20: the cache holds an entry only if it is a token, and when
\* generate_bearer_token has returned no token the cache is empty.
C20_CacheHoldsOnlyTokens ==
    /\ Cached => CACHE["token"] \in Tokens
    /\ \A s \in Sessions : (GbtReturned(s) /\ Falsy(ret[s])) => ~Cached

====
